---------------------------- MODULE Spec2Model ----------------------------
(***************************************************************************)
(* Model of the pulse scheduler of Qynit.PulseGen: the measure / arrange   *)
(* wrappers of schedule.rs, the Stack layout of schedule/stack.rs and the  *)
(* Absolute container of schedule/absolute.rs; and of its synthesizer in   *)
(* pulse.rs: Envelope, PulseListBuilder, the sampler with its crosstalk    *)
(* mixing, and the envelope cache.                                         *)
(*                                                                         *)
(* Time is an f64 wrapper in the source.  The model uses integers: every   *)
(* operation modelled here is +, -, min, max and comparison, which are     *)
(* exact on small integers in f64.  Time::INFINITY is the integer INFINITY,*)
(* larger than every finite time the model can build.                      *)
(***************************************************************************)
EXTENDS Integers, Sequences, FiniteSets, TLC

VARIABLES
    elem,             \* the Element handed to measure / arrange (common + variant)
    w_measured,       \* Option<MeasuredElement>: {} or {record}
    w_arranged,       \* outcome of the last arrange(measured, time, duration, options)
    stack,            \* a Stack value: children, direction, channel_ids
    s_measure_result, \* Stack::measure_result, a OnceLock: {} or {<<total, offsets>>}
    s_arranged,       \* outcome of the last arrange_stack over the measured children
    abs,              \* Absolute values by name: children and the OnceLock cache
    a_ret,            \* the value Absolute::measure has just returned, and on which value
    a_elem,           \* an Element whose variant is an Absolute: common + entries
    a_arranged,       \* outcome of the last arrange of a_elem
    e_args,           \* the arguments handed to Envelope::new
    e_env,            \* the Envelope constructed from them: {} or {record}
    builder,          \* a PulseListBuilder: items, amp_tolerance, time_tolerance
    b_call,           \* the arguments of the last push on builder
    b_list,           \* the PulseList returned by build(): {} or {items}
    sampler,          \* a Sampler: channels by name and Option<Crosstalk>
    sampled,          \* outcome of the last Sampler::sample(time_tolerance)
    cache,            \* the store behind #[cached] get_envelope, with its LRU order
    tasks,            \* the rayon tasks of one sample(): position and pulses to render
    shape_calls       \* number of runs of the body of get_envelope, by key

wvars == <<elem, w_measured, w_arranged>>
svars == <<stack, s_measure_result, s_arranged>>
avars == <<abs, a_ret, a_elem, a_arranged>>
evars == <<e_args, e_env>>
bvars == <<builder, b_call, b_list>>
mvars == <<sampler, sampled>>
kvars == <<cache, tasks, shape_calls>>
pulse == <<evars, bvars, mvars, kvars>>
vars == <<wvars, svars, avars, pulse>>
notW == <<svars, avars, pulse>>
notS == <<wvars, avars, pulse>>
notA == <<wvars, svars, pulse>>
schedule == <<wvars, svars, avars>>
notE == <<schedule, bvars, mvars, kvars>>
notB == <<schedule, evars, mvars, kvars>>
notM == <<schedule, evars, bvars, kvars>>
notK == <<schedule, evars, bvars, mvars>>

---------------------------------------------------------------------------
(* Bounds of the model.                                                    *)

MaxMargin == 1
MaxNegMargin == 1
MaxInner == 2
MaxLimit == 2
MaxSlot == 4
MaxTol == 1
MaxStart == 1

(* Time::INFINITY, the default max_duration and the "no duration" maximum. *)
INFINITY == 1000

---------------------------------------------------------------------------
(* Time helpers: f64 min / max.                                            *)

TMin(a, b) == IF a < b THEN a ELSE b

TMax(a, b) == IF a > b THEN a ELSE b

(* Option<Time>::unwrap_or; an Option is the empty set or a singleton.     *)
unwrap_or(opt, default) == IF opt = {} THEN default ELSE CHOOSE x \in opt : TRUE

---------------------------------------------------------------------------
(* schedule.rs: ElementCommon and the measure / arrange wrappers.          *)

clamp_duration(duration, min_duration, max_duration) ==
    TMax(TMin(duration, max_duration), min_duration)

(* ElementCommon::clamp_min_max_duration: <<min_duration, max_duration>>.  *)
clamp_min_max_duration(common) ==
    LET max_d == clamp_duration(unwrap_or(common.duration, INFINITY),
                                common.min_duration, common.max_duration)
        min_d == clamp_duration(unwrap_or(common.duration, 0),
                                common.min_duration, common.max_duration)
    IN  <<min_d, max_d>>

total_margin(common) == common.margin[1] + common.margin[2]

(* ElementCommonBuilder::validate: what build() accepts.                   *)
validate(common) ==
    /\ common.duration \subseteq Nat
    /\ common.min_duration >= 0
    /\ common.min_duration < INFINITY
    /\ common.max_duration >= 0

(* measure(element): the variant reports `inner`; the wrapper adds the     *)
(* margin and clamps.                                                      *)
measure(e) ==
    LET tm == total_margin(e.common)
        mm == clamp_min_max_duration(e.common)
        unclipped_duration == TMax(e.inner + tm, 0)
        duration == clamp_duration(unclipped_duration, mm[1], mm[2]) + tm
    IN  [unclipped_duration |-> unclipped_duration,
         duration |-> TMax(duration, 0)]

(* ElementVariant::arrange of a container: ArrangeResult.0 is the final    *)
(* inner duration it was given.                                            *)
variant_arrange(final_duration) == final_duration

NotArranged ==
    [status |-> "none", time |-> 0, duration |-> 0, tol |-> 0, allow |-> FALSE,
     final_duration |-> 0, inner_time |-> 0, inner_duration |-> 0,
     variant_arranged |-> FALSE]

(* The mutant of arrange that drops the second oversize check.             *)
arrange_no_second_check(e, m, time, duration, tol, allow, variant_ok) ==
    LET tm == total_margin(e.common)
        mm == clamp_min_max_duration(e.common)
        inner_duration == clamp_duration(TMax(duration - tm, 0), mm[1], mm[2])
        call == [time |-> time, duration |-> duration, tol |-> tol, allow |-> allow,
                 final_duration |-> inner_duration]
    IN  IF duration < m.unclipped_duration - tol /\ ~allow
        THEN call @@ [status |-> "oversize", inner_time |-> 0,
                      inner_duration |-> 0, variant_arranged |-> FALSE]
        ELSE IF ~variant_ok
        THEN call @@ [status |-> "child_error", inner_time |-> 0,
                      inner_duration |-> 0, variant_arranged |-> TRUE]
        ELSE call @@ [status |-> "ok", inner_time |-> time + e.common.margin[1],
                      inner_duration |-> variant_arrange(inner_duration),
                      variant_arranged |-> TRUE]

(* The mutant of arrange whose second oversize check looks at the duration *)
(* before it is clamped to the element's min / max.                        *)
arrange_check_unclamped(e, m, time, duration, tol, allow, variant_ok) ==
    LET tm == total_margin(e.common)
        mm == clamp_min_max_duration(e.common)
        inner_duration == clamp_duration(TMax(duration - tm, 0), mm[1], mm[2])
        call == [time |-> time, duration |-> duration, tol |-> tol, allow |-> allow,
                 final_duration |-> inner_duration]
    IN  IF duration < m.unclipped_duration - tol /\ ~allow
        THEN call @@ [status |-> "oversize", inner_time |-> 0,
                      inner_duration |-> 0, variant_arranged |-> FALSE]
        ELSE IF TMax(duration - tm, 0) + tm < m.unclipped_duration - tol /\ ~allow
        THEN call @@ [status |-> "oversize", inner_time |-> 0,
                      inner_duration |-> 0, variant_arranged |-> FALSE]
        ELSE IF ~variant_ok
        THEN call @@ [status |-> "child_error", inner_time |-> 0,
                      inner_duration |-> 0, variant_arranged |-> TRUE]
        ELSE call @@ [status |-> "ok", inner_time |-> time + e.common.margin[1],
                      inner_duration |-> variant_arrange(inner_duration),
                      variant_arranged |-> TRUE]

(* arrange(measured, time, duration, options).  variant_ok is the outcome  *)
(* of element.variant.arrange: a container's children may fail to arrange. *)
arrange(e, m, time, duration, tol, allow, variant_ok) ==
    LET tm == total_margin(e.common)
        mm == clamp_min_max_duration(e.common)
        inner_duration == clamp_duration(TMax(duration - tm, 0), mm[1], mm[2])
        call == [time |-> time, duration |-> duration, tol |-> tol, allow |-> allow,
                 final_duration |-> inner_duration]
    IN  IF duration < m.unclipped_duration - tol /\ ~allow
        THEN call @@ [status |-> "oversize", inner_time |-> 0,
                      inner_duration |-> 0, variant_arranged |-> FALSE]
        ELSE IF inner_duration + tm < m.unclipped_duration - tol /\ ~allow
        THEN call @@ [status |-> "oversize", inner_time |-> 0,
                      inner_duration |-> 0, variant_arranged |-> FALSE]
        ELSE IF ~variant_ok
        THEN call @@ [status |-> "child_error", inner_time |-> 0,
                      inner_duration |-> 0, variant_arranged |-> TRUE]
        ELSE call @@ [status |-> "ok", inner_time |-> time + e.common.margin[1],
                      inner_duration |-> variant_arrange(inner_duration),
                      variant_arranged |-> TRUE]

Margins == (0 - MaxNegMargin)..MaxMargin

(* Every ElementCommon that ElementCommonBuilder::build accepts, within    *)
(* the bounds.                                                             *)
Commons ==
    { c \in [margin : Margins \X Margins,
             duration : {{}} \cup {{d} : d \in 0..MaxLimit},
             min_duration : 0..MaxLimit,
             max_duration : (0..MaxLimit) \cup {INFINITY}] : validate(c) }

Elements == [common : Commons, inner : 0..MaxInner]

IdleElem ==
    [common |-> [margin |-> <<0, 0>>, duration |-> {}, min_duration |-> 0,
                 max_duration |-> INFINITY],
     inner |-> 0]

WInit ==
    /\ elem \in Elements
    /\ w_measured = {}
    /\ w_arranged = NotArranged

WIdle ==
    /\ elem = IdleElem
    /\ w_measured = {}
    /\ w_arranged = NotArranged

(* measure(element)                                                        *)
WMeasure ==
    /\ w_measured = {}
    /\ w_measured' = {measure(elem)}
    /\ UNCHANGED <<elem, w_arranged, notW>>

(* arrange(&measured, time, duration, &options)                            *)
WArrange ==
    /\ w_measured # {}
    /\ w_arranged.status = "none"
    /\ \E time \in 0..MaxStart, duration \in 0..MaxSlot, tol \in 0..MaxTol,
          allow \in BOOLEAN, variant_ok \in BOOLEAN :
          w_arranged' = arrange(elem, unwrap_or(w_measured, 0), time, duration,
                                tol, allow, variant_ok)
    /\ UNCHANGED <<elem, w_measured, notW>>

(* The arranged result is dropped; the measured element can be arranged    *)
(* again.                                                                  *)
WDrop ==
    /\ w_arranged.status # "none"
    /\ w_arranged' = NotArranged
    /\ UNCHANGED <<elem, w_measured, notW>>

---------------------------------------------------------------------------
(* schedule/stack.rs: Stack, measure_stack, arrange_stack and Helper.      *)
(* A child is what the Measure trait shows of it: measure() and channels().*)

Channels == {"ch0", "ch1"}

MaxChildren == 3
MaxChildDur == 2
MaxFinal == 5

Reverse(s) == [i \in 1..Len(s) |-> s[Len(s) + 1 - i]]

(* Iterator::max().copied().unwrap_or_default() over a set of times.       *)
max_or_default(S) == IF S = {} THEN 0 ELSE CHOOSE x \in S : \A y \in S : y <= x

(* merge_channel_ids: the union of the children's channels.                *)
merge_channel_ids(children) == UNION {children[i].channels : i \in DOMAIN children}

(* Helper::new.  ChannelUsage::Multiple holds a HashMap, modelled as a     *)
(* function whose domain is the keys inserted so far.                      *)
Helper_new(all_channels) ==
    [all_channels |-> all_channels,
     kind |-> IF all_channels = {} THEN "Single" ELSE "Multiple",
     v |-> 0,
     d |-> [c \in {} |-> 0]]

(* The mutant of get_usage that looks at one of the declared channels only.*)
get_usage_one_channel(h, channels) ==
    IF h.kind = "Single" THEN h.v
    ELSE IF channels = {}
         THEN max_or_default({h.d[c] : c \in DOMAIN h.d})
         ELSE max_or_default({h.d[c] : c \in {CHOOSE x \in channels : TRUE}
                                                 \cap DOMAIN h.d})

Helper_get_usage(h, channels) ==
    IF h.kind = "Single" THEN h.v
    ELSE IF channels = {}
         THEN max_or_default({h.d[c] : c \in DOMAIN h.d})
         ELSE max_or_default({h.d[c] : c \in channels \cap DOMAIN h.d})

(* The mutant of update_usage that records nothing for a child declaring   *)
(* no channels.                                                            *)
update_usage_declared_only(h, new_duration, channels) ==
    IF h.kind = "Single" THEN [h EXCEPT !.v = new_duration]
    ELSE [h EXCEPT !.d = [c \in DOMAIN h.d \cup channels |->
                            IF c \in channels THEN new_duration ELSE h.d[c]]]

Helper_update_usage(h, new_duration, channels) ==
    LET chs == IF channels = {} THEN h.all_channels ELSE channels
    IN  IF h.kind = "Single" THEN [h EXCEPT !.v = new_duration]
        ELSE [h EXCEPT !.d = [c \in DOMAIN h.d \cup chs |->
                                IF c \in chs THEN new_duration ELSE h.d[c]]]

Helper_into_max_usage(h) ==
    IF h.kind = "Single" THEN h.v
    ELSE max_or_default({h.d[c] : c \in DOMAIN h.d})

(* The mutant of the closure of measure_stack that records the child's     *)
(* offset, not its end, as the new usage.                                  *)
RECURSIVE map_children_no_advance(_, _, _)
map_children_no_advance(order, helper, offsets) ==
    IF order = <<>> THEN [helper |-> helper, offsets |-> offsets]
    ELSE LET child == Head(order)
             child_offset == Helper_get_usage(helper, child.channels)
             next == Helper_update_usage(helper, child_offset, child.channels)
         IN  map_children_no_advance(Tail(order), next, Append(offsets, child_offset))

(* The closure of measure_stack mapped over the children in the order      *)
(* given: the helper after the last child and the offsets in that order.   *)
RECURSIVE map_children(_, _, _)
map_children(order, helper, offsets) ==
    IF order = <<>> THEN [helper |-> helper, offsets |-> offsets]
    ELSE LET child == Head(order)
             child_offset == Helper_get_usage(helper, child.channels)
             next == Helper_update_usage(helper, child_offset + child.duration,
                                         child.channels)
         IN  map_children(Tail(order), next, Append(offsets, child_offset))

(* The mutant of map_and_collect_by_direction without the final reverse.   *)
collect_unreversed(children, direction, helper) ==
    map_children(IF direction = "Forward" THEN children ELSE Reverse(children),
                 helper, <<>>)

(* map_and_collect_by_direction: map by direction, collect in the original *)
(* order.                                                                  *)
map_and_collect_by_direction(children, direction, helper) ==
    LET r == map_children(IF direction = "Forward" THEN children
                          ELSE Reverse(children), helper, <<>>)
    IN  IF direction = "Backward" THEN [r EXCEPT !.offsets = Reverse(r.offsets)]
        ELSE r

(* The mutant of measure_stack that visits the children first to last      *)
(* whatever the direction.                                                 *)
measure_stack_forward_only(children, channels, direction) ==
    LET r == map_and_collect_by_direction(children, "Forward", Helper_new(channels))
    IN  <<Helper_into_max_usage(r.helper), r.offsets>>

(* measure_stack: <<total duration, child offsets>>.                       *)
measure_stack(children, channels, direction) ==
    LET r == map_and_collect_by_direction(children, direction, Helper_new(channels))
    IN  <<Helper_into_max_usage(r.helper), r.offsets>>

(* The mutant of arrange_stack that never mirrors.                         *)
arrange_stack_unmirrored(children, offsets, final_duration, direction) ==
    [i \in DOMAIN children |->
        [final_offset |-> offsets[i], duration |-> children[i].duration]]

(* arrange_stack over (child, measured offset) pairs.                      *)
arrange_stack(children, offsets, final_duration, direction) ==
    [i \in DOMAIN children |->
        LET child_duration == children[i].duration
        IN  [final_offset |-> IF direction = "Forward" THEN offsets[i]
                              ELSE final_duration - offsets[i] - child_duration,
             duration |-> child_duration]]

StackChild == [duration : 0..MaxChildDur, channels : SUBSET Channels]

RECURSIVE SeqsUpTo(_, _)
SeqsUpTo(S, n) ==
    IF n = 0 THEN {<<>>}
    ELSE LET shorter == SeqsUpTo(S, n - 1)
         IN  shorter \cup {Append(s, x) : s \in {t \in shorter : Len(t) = n - 1}, x \in S}

(* Stack::new().with_direction(d).with_children(cs)                        *)
NewStack(children, direction) ==
    [children |-> children, direction |-> direction,
     channel_ids |-> merge_channel_ids(children)]

NoStackArranged == [done |-> FALSE, final_duration |-> 0, children |-> <<>>]

SInit ==
    /\ \E cs \in SeqsUpTo(StackChild, MaxChildren), d \in {"Forward", "Backward"} :
          stack = NewStack(cs, d)
    /\ s_measure_result = {}
    /\ s_arranged = NoStackArranged

SIdle ==
    /\ stack = NewStack(<<>>, "Backward")
    /\ s_measure_result = {}
    /\ s_arranged = NoStackArranged

(* Stack::measure_result: OnceLock::get_or_init(measure_stack)             *)
StackMeasure ==
    /\ s_measure_result = {}
    /\ s_measure_result' = {measure_stack(stack.children, stack.channel_ids,
                                          stack.direction)}
    /\ UNCHANGED <<stack, s_arranged, notS>>

(* arrange_stack(children zipped with the measured offsets, final_duration,*)
(* direction)                                                              *)
StackArrange ==
    /\ s_measure_result # {}
    /\ ~s_arranged.done
    /\ \E final_duration \in 0..MaxFinal :
          s_arranged' =
              [done |-> TRUE, final_duration |-> final_duration,
               children |-> arrange_stack(stack.children,
                                          unwrap_or(s_measure_result, <<>>)[2],
                                          final_duration, stack.direction)]
    /\ UNCHANGED <<stack, s_measure_result, notS>>

(* Stack::with_direction: sets the direction and takes the cached measure. *)
StackWithDirection ==
    /\ \E d \in {"Forward", "Backward"} :
          stack' = [stack EXCEPT !.direction = d]
    /\ s_measure_result' = {}
    /\ s_arranged' = NoStackArranged
    /\ UNCHANGED notS

---------------------------------------------------------------------------
(* schedule/absolute.rs: AbsoluteEntry, Absolute and its lazy measure.     *)

MaxEntries == 1

DefaultCommon ==
    [margin |-> <<0, 0>>, duration |-> {}, min_duration |-> 0,
     max_duration |-> INFINITY]

(* The mutant of AbsoluteEntry::new that does not start at Time::ZERO.     *)
AbsoluteEntry_new_at_one(element) ==
    [time |-> 1, element |-> element, with_time_called |-> FALSE]

(* AbsoluteEntry::new.  with_time_called records how the entry was built.  *)
AbsoluteEntry_new(element) ==
    [time |-> 0, element |-> element, with_time_called |-> FALSE]

(* AbsoluteEntry::with_time, for a finite time.                            *)
AbsoluteEntry_with_time(entry, time) ==
    [entry EXCEPT !.time = time, !.with_time_called = TRUE]

(* Measure::measure of a child ElementRef: its measured duration.          *)
child_measure(element) == measure(element).duration

(* measure_absolute: max(offset + child.measure()), Time::ZERO if empty.   *)
measure_absolute(children) ==
    LET ends == {children[i].time + child_measure(children[i].element) :
                    i \in DOMAIN children}
    IN  IF ends = {} THEN 0 ELSE CHOOSE x \in ends : \A y \in ends : y <= x

(* Absolute::new / Default: no children, empty OnceLock.                   *)
Absolute_new == [live |-> TRUE, children |-> <<>>, measure_result |-> {}]

NoAbsolute == [live |-> FALSE, children |-> <<>>, measure_result |-> {}]

(* Absolute::with_children: replaces the children; measure_result is left *)
(* as it is.                                                               *)
Absolute_with_children(self, children) == [self EXCEPT !.children = children]

(* Absolute::measure_result: OnceLock::get_or_init(measure_absolute).      *)
Absolute_measure_result(self) ==
    IF self.measure_result = {}
    THEN [self EXCEPT !.measure_result = {measure_absolute(self.children)}]
    ELSE self

(* The mutant of Absolute::arrange that stretches the children to the      *)
(* duration the Absolute receives.                                         *)
Absolute_arrange_stretch(children, time, duration) ==
    [i \in DOMAIN children |->
        [duration |-> duration, offset |-> time + children[i].time]]

(* Absolute::arrange(time, _duration): one Arranged per entry.             *)
Absolute_arrange(children, time, duration) ==
    [i \in DOMAIN children |->
        [duration |-> child_measure(children[i].element),
         offset |-> time + children[i].time]]

AbsNames == {"a", "b"}

Offsets == 0..MaxStart

(* Children of the cached Absolute values: elements without margin.        *)
PlainElems == [common : {DefaultCommon}, inner : 0..MaxInner]

(* Children of the arranged Absolute: elements with a left margin.         *)
MarginElems ==
    [common : {[DefaultCommon EXCEPT !.margin = <<l, 0>>] : l \in 0..MaxMargin},
     inner : 1..MaxInner]

EntriesOf(elems) ==
    {AbsoluteEntry_new(e) : e \in elems}
        \cup {AbsoluteEntry_with_time(AbsoluteEntry_new(e), t) :
                 e \in elems, t \in Offsets}

NoRet == [who |-> "none", value |-> 0]

NoAbsArranged ==
    [done |-> FALSE, base |-> 0, final_duration |-> 0, parent |-> NotArranged,
     children |-> <<>>]

IdleAbsElem == [common |-> DefaultCommon, entries |-> <<>>]

AInit ==
    /\ abs = [n \in AbsNames |-> NoAbsolute]
    /\ a_ret = NoRet
    /\ a_elem = IdleAbsElem
    /\ a_arranged = NoAbsArranged

AIdle == AInit

(* let n = Absolute::new();                                                *)
AbsNew ==
    /\ \E n \in AbsNames : abs' = [abs EXCEPT ![n] = Absolute_new]
    /\ a_ret' = NoRet
    /\ UNCHANGED <<a_elem, a_arranged, notA>>

(* let n = n.with_children(children);                                      *)
AbsWithChildren ==
    /\ \E n \in AbsNames, cs \in SeqsUpTo(EntriesOf(PlainElems), MaxEntries) :
          /\ abs[n].live
          /\ abs' = [abs EXCEPT ![n] = Absolute_with_children(abs[n], cs)]
    /\ a_ret' = NoRet
    /\ UNCHANGED <<a_elem, a_arranged, notA>>

(* let to = from.clone();  derive(Clone) copies the OnceLock's content.    *)
AbsClone ==
    /\ \E from \in AbsNames, to \in AbsNames :
          /\ from # to
          /\ abs[from].live
          /\ abs' = [abs EXCEPT ![to] = abs[from]]
    /\ a_ret' = NoRet
    /\ UNCHANGED <<a_elem, a_arranged, notA>>

(* n.measure()                                                             *)
AbsMeasure ==
    /\ \E n \in AbsNames :
          /\ abs[n].live
          /\ LET after == Absolute_measure_result(abs[n])
             IN  /\ abs' = [abs EXCEPT ![n] = after]
                 /\ a_ret' = [who |-> n, value |-> unwrap_or(after.measure_result, 0)]
    /\ UNCHANGED <<a_elem, a_arranged, notA>>

(* An Element whose variant is an Absolute, as built by the caller.        *)
AbsElems ==
    [common : {[DefaultCommon EXCEPT !.margin = <<l, 0>>] : l \in Margins},
     entries : SeqsUpTo(EntriesOf(MarginElems), MaxEntries)]

PInit ==
    /\ abs = [n \in AbsNames |-> NoAbsolute]
    /\ a_ret = NoRet
    /\ a_elem \in AbsElems
    /\ a_arranged = NoAbsArranged

(* arrange(&measured, time, duration, &options) of an Absolute element.    *)
(* The wrapper hands its inner duration to the variant; the variant places *)
(* every entry with Absolute::arrange and arranges each child through the  *)
(* wrapper again.  base is the time the caller hands to Absolute::arrange: *)
(* Time::ZERO for parent-relative times, or the Absolute's own inner time. *)
(* options.time_tolerance is 0: the placement does not read it.            *)
AbsArrange ==
    /\ ~a_arranged.done
    /\ \E time \in {0, MaxStart}, duration \in 0..MaxSlot, allow \in BOOLEAN,
          relative \in BOOLEAN :
          LET tol == 0
              e == [common |-> a_elem.common,
                    inner |-> measure_absolute(a_elem.entries)]
              m == measure(e)
              probe == arrange(e, m, time, duration, tol, allow, TRUE)
              base == IF relative THEN 0 ELSE time + e.common.margin[1]
              placed == Absolute_arrange(a_elem.entries, base, probe.final_duration)
              kids == [i \in DOMAIN placed |->
                          LET ce == a_elem.entries[i].element
                          IN  arrange(ce, measure(ce), placed[i].offset,
                                      placed[i].duration, tol, allow, TRUE)]
              parent == arrange(e, m, time, duration, tol, allow,
                                \A i \in DOMAIN kids : kids[i].status = "ok")
          IN  a_arranged' =
                  [done |-> TRUE, base |-> base,
                   final_duration |-> probe.final_duration,
                   parent |-> parent,
                   children |-> IF parent.variant_arranged THEN kids ELSE <<>>]
    /\ UNCHANGED <<abs, a_ret, a_elem, notA>>

(* The arranged tree is dropped; the element can be arranged again.        *)
AbsDrop ==
    /\ a_arranged.done
    /\ a_arranged' = NoAbsArranged
    /\ UNCHANGED <<abs, a_ret, a_elem, notA>>

---------------------------------------------------------------------------
(* pulse.rs: Envelope.  A Shape is a value of the shape library; the model *)
(* needs its identity only.  Option<Shape> is {} or {shape}.               *)

Shapes == {"hann", "gauss"}

MaxWidth == 3
MaxNegWidth == 1
MaxPlateau == 3

(* The mutant of Envelope::new that keeps the shape of a zero width.       *)
Envelope_new_keep_shape(shape, width, plateau) ==
    LET plateau1 == IF shape = {} THEN plateau + width ELSE plateau
        width1 == IF shape = {} THEN 0 ELSE width
    IN  [shape |-> shape, width |-> width1, plateau |-> plateau1]

(* Envelope::new                                                           *)
Envelope_new(shape, width, plateau) ==
    LET plateau1 == IF shape = {} THEN plateau + width ELSE plateau
        width1 == IF shape = {} THEN 0 ELSE width
        shape1 == IF width1 = 0 THEN {} ELSE shape
    IN  [shape |-> shape1, width |-> width1, plateau |-> plateau1]

EnvelopeArgs ==
    [shape : {{}} \cup {{x} : x \in Shapes},
     width : (0 - MaxNegWidth)..MaxWidth,
     plateau : 0..MaxPlateau]

EInit ==
    /\ e_args \in EnvelopeArgs
    /\ e_env = {}

EIdle ==
    /\ e_args = [shape |-> {}, width |-> 0, plateau |-> 0]
    /\ e_env = {}

(* Envelope::new(shape, width, plateau) on the arguments.                  *)
EnvNew ==
    /\ e_env = {}
    /\ e_env' = {Envelope_new(e_args.shape, e_args.width, e_args.plateau)}
    /\ UNCHANGED <<e_args, notE>>

(* Envelope::new on the fields of the envelope constructed before.         *)
EnvAgain ==
    /\ e_env # {}
    /\ \E e \in e_env :
          /\ e_args' = e
          /\ e_env' = {Envelope_new(e.shape, e.width, e.plateau)}
    /\ UNCHANGED notE

---------------------------------------------------------------------------
(* pulse.rs: PulseListBuilder.                                             *)
(*                                                                         *)
(* Amplitudes are counted in units of 0.5, so that 0.5 + 0.5 = 1.0 reads   *)
(* 1 + 1 = 2.  A Complex64 is the pair <<re, im>>; a phase is a number of  *)
(* quarter turns q (phase = q / 4), for which from_polar(r, TAU * phase)   *)
(* is r * i^q, exact on integers.                                          *)

MaxTime == 2
MaxPush == 3
MaxHeld == 1
MaxAmp == 2

Abs(x) == IF x < 0 THEN 0 - x ELSE x

(* float_cmp::approx_eq!(f64, a, b, epsilon = e): the margin is            *)
(* zero().epsilon(e), so a == b || |a - b| <= e.                           *)
approx_eq(a, b, epsilon) == a = b \/ Abs(a - b) <= epsilon

CAdd(x, y) == <<x[1] + y[1], x[2] + y[2]>>

CScale(x, k) == <<x[1] * k, x[2] * k>>

(* x * i^q                                                                 *)
CTurn(x, q) ==
    CASE q % 4 = 0 -> x
      [] q % 4 = 1 -> <<0 - x[2], x[1]>>
      [] q % 4 = 2 -> <<0 - x[1], 0 - x[2]>>
      [] q % 4 = 3 -> <<x[2], 0 - x[1]>>

(* Complex64::from_polar(r, TAU * q / 4)                                   *)
from_polar(r, q) == CTurn(<<r, 0>>, q)

(* The mutant of Add for PulseAmplitude that keeps the left operand.       *)
PulseAmplitude_add_keep_left(a, b) == a

(* impl Add for PulseAmplitude                                             *)
PulseAmplitude_add(a, b) == [amp |-> CAdd(a.amp, b.amp), drag |-> CAdd(a.drag, b.drag)]

(* The mutant of Mul<f64> for PulseAmplitude that drops the factor.        *)
PulseAmplitude_mul_by_one(a, rhs) == a

(* impl Mul<f64> for PulseAmplitude                                        *)
PulseAmplitude_mul(a, rhs) == [amp |-> CScale(a.amp, rhs), drag |-> CScale(a.drag, rhs)]

(* The two ListBins of the model: a pure plateau and a shaped envelope.    *)
BinPlateau ==
    [envelope |-> Envelope_new({}, 0, 2), global_freq |-> 0, local_freq |-> 0]

BinShaped ==
    [envelope |-> Envelope_new({"hann"}, 2, 1), global_freq |-> 1, local_freq |-> 0]

Bins == {BinPlateau, BinShaped}

(* PulseListBuilder::new                                                   *)
PulseListBuilder_new(amp_tolerance, time_tolerance) ==
    [items |-> <<>>, amp_tolerance |-> amp_tolerance, time_tolerance |-> time_tolerance]

(* HashMap::entry(bin).or_default().push(item)                             *)
entry_push(items, bin, item) ==
    [k \in DOMAIN items \cup {bin} |->
        IF k = bin
        THEN Append(IF bin \in DOMAIN items THEN items[bin] ELSE <<>>, item)
        ELSE items[k]]

(* The mutant of push that drops amplitudes strictly inside the tolerance  *)
(* only.                                                                   *)
push_strict(b, a) ==
    IF Abs(a.amplitude) < b.amp_tolerance THEN b
    ELSE LET amp == from_polar(a.amplitude, a.phase)
             drag == CScale(CTurn(amp, 1), a.drag_coef)
         IN  [b EXCEPT !.items = entry_push(b.items, a.bin,
                                 <<a.time, [amp |-> amp, drag |-> drag]>>)]

(* PulseListBuilder::push; a holds the arguments, a.bin standing for       *)
(* (envelope, global_freq, local_freq).                                    *)
push(b, a) ==
    IF approx_eq(a.amplitude, 0, b.amp_tolerance) THEN b
    ELSE LET amp == from_polar(a.amplitude, a.phase)
             drag == CScale(CTurn(amp, 1), a.drag_coef)
         IN  [b EXCEPT !.items = entry_push(b.items, a.bin,
                                 <<a.time, [amp |-> amp, drag |-> drag]>>)]

(* sort_unstable_by_key(|(time, _)| *time).  The order it leaves among     *)
(* entries of equal time is unspecified; build adds those entries up, and  *)
(* the sums of the model do not depend on that order.                      *)
RECURSIVE sort_by_time(_)
sort_by_time(pulses) ==
    IF Len(pulses) <= 1 THEN pulses
    ELSE LET rest == sort_by_time(Tail(pulses))
             x == Head(pulses)
             n == Cardinality({k \in DOMAIN rest : rest[k][1] < x[1]})
         IN  SubSeq(rest, 1, n) \o <<x>> \o SubSeq(rest, n + 1, Len(rest))

(* The loop of build over one sorted bin, from index j on; out holds       *)
(* pulses[0..=i] of the source.                                            *)
RECURSIVE coalesce_from(_, _, _, _)
coalesce_from(pulses, out, j, time_tolerance) ==
    IF j > Len(pulses) THEN out
    ELSE LET i == Len(out)
         IN  IF approx_eq(out[i][1], pulses[j][1], time_tolerance)
             THEN coalesce_from(pulses,
                      [out EXCEPT ![i] = <<out[i][1],
                                           PulseAmplitude_add(out[i][2], pulses[j][2])>>],
                      j + 1, time_tolerance)
             ELSE coalesce_from(pulses, Append(out, pulses[j]), j + 1, time_tolerance)

coalesce(pulses, time_tolerance) ==
    IF pulses = <<>> THEN <<>>
    ELSE coalesce_from(pulses, <<pulses[1]>>, 2, time_tolerance)

(* The mutant of build that does not sort.                                 *)
build_unsorted(b) ==
    [bin \in DOMAIN b.items |-> coalesce(b.items[bin], b.time_tolerance)]

(* PulseListBuilder::build: the items of the PulseList.                    *)
build(b) ==
    [bin \in DOMAIN b.items |-> coalesce(sort_by_time(b.items[bin]), b.time_tolerance)]

Quarters == {0, 1}

(* Arguments of push.                                                      *)
PushArgs(times, amplitudes) ==
    [bin : Bins, time : times, amplitude : amplitudes, drag_coef : {1}, phase : Quarters]

RECURSIVE push_all(_, _)
push_all(b, calls) ==
    IF calls = <<>> THEN b ELSE push_all(push(b, Head(calls)), Tail(calls))

BIdle ==
    /\ builder = PulseListBuilder_new(0, 0)
    /\ b_call = {}
    /\ b_list = {}

(* A builder after up to MaxPush pushes of unit amplitude.                 *)
BInit ==
    /\ \E tol \in 0..MaxTol, calls \in SeqsUpTo(PushArgs(0..MaxTime, {1}), MaxPush) :
          builder = push_all(PulseListBuilder_new(0, tol), calls)
    /\ b_call = {}
    /\ b_list = {}

(* A builder of amplitude tolerance tol holding up to MaxHeld entries      *)
(* above it.                                                               *)
HInit ==
    /\ \E tol \in 0..MaxTol,
          calls \in SeqsUpTo(PushArgs({0}, {MaxTol + 1}), MaxHeld) :
          builder = push_all(PulseListBuilder_new(tol, 0), calls)
    /\ b_call = {}
    /\ b_list = {}

(* PulseListBuilder::push.  A run pushes until a push is kept.             *)
BPush ==
    /\ b_list = {}
    /\ \A c \in b_call : Abs(c.amplitude) <= builder.amp_tolerance
    /\ \E a \in PushArgs({0, MaxTime}, (0 - MaxAmp)..MaxAmp) :
          /\ builder' = push(builder, a)
          /\ b_call' = {a}
    /\ UNCHANGED <<b_list, notB>>

(* PulseListBuilder::build.  It consumes the builder; the model keeps the  *)
(* value to compare the list against.                                      *)
BBuild ==
    /\ b_list = {}
    /\ b_list' = {build(builder)}
    /\ b_call' = {}
    /\ UNCHANGED <<builder, notB>>

---------------------------------------------------------------------------
(* pulse.rs: get_envelope and sample_pulse_list.                           *)
(*                                                                         *)
(* Channels of the model have sample_rate 1 and align_level 0 and pulses   *)
(* start at integer times, so dt = 1, a start index is the start time and  *)
(* the sub-sample index_offset is 0.  Frequencies are counted in quarter   *)
(* turns per sample, so a carrier is a power of i.  Envelope samples are   *)
(* counted in units of 1/2 and waveform samples in units of 1/4 of the     *)
(* amplitude unit, which keeps amp * env + drag * (right - left) / 2 an    *)
(* integer.                                                                *)

MaxLen == 4
MaxDelay == 1

Min(a, b) == IF a < b THEN a ELSE b

(* f64 as usize: a negative value saturates to 0.                          *)
as_usize(x) == IF x < 0 THEN 0 ELSE x

(* (n / 2).ceil() for an integer n                                         *)
CeilHalf(n) == (n + 1) \div 2

(* AlignedIndex::new(t_start, sample_rate, align_level) at align_level 0,  *)
(* for an integer t_start * sample_rate: the aligned position itself.      *)
AlignedIndex_new(t_start, sample_rate, align_level) == t_start * sample_rate

AlignedIndex_ceil(i) == i

AlignedIndex_index_offset(i) == AlignedIndex_ceil(i) - i

(* Shape::sample_array writes shape(x0 + i * dx).  The value of the Hann   *)
(* shape at x = num / den, in units of 1/2: 0 outside (-1/2, 1/2), 1.0 at  *)
(* the centre, 0.5 at the quarter points.                                  *)
shape_value(shape, num, den) ==
    IF 2 * Abs(num) >= den THEN 0 ELSE IF num = 0 THEN 2 ELSE 1

(* The body of get_envelope: the envelope samples, in units of 1/2.  x is  *)
(* counted in units of 1 / (2 * width).                                    *)
get_envelope(shape, width, plateau, index_offset, sample_rate) ==
    LET t_offset == index_offset
        t1_twice == width - 2 * t_offset
        t2_twice == width + 2 * plateau - 2 * t_offset
        t3 == width + plateau - t_offset
        length == as_usize(t3 * sample_rate)
        plateau_start_index == as_usize(CeilHalf(t1_twice * sample_rate))
        plateau_end_index == as_usize(CeilHalf(t2_twice * sample_rate))
        x0 == 0 - t1_twice
        x2 == 2 * plateau_end_index - t2_twice
    IN  [i \in 1..length |->
            IF plateau = 0 THEN shape_value(shape, x0 + 2 * (i - 1), 2 * width)
            ELSE IF i - 1 < plateau_start_index
                 THEN shape_value(shape, x0 + 2 * (i - 1), 2 * width)
            ELSE IF i - 1 < plateau_end_index THEN 2
            ELSE shape_value(shape, x2 + 2 * (i - 1 - plateau_end_index), 2 * width)]

(* mix_add_envelope: what it adds to the n-th sample (from 0) of the slice *)
(* it is given, of length len; izip! stops at the shorter of the slice and *)
(* the envelope.                                                           *)
mix_add_envelope(len, envelope, amplitude, drag_amp, phase0, dphase) ==
    [n \in 0..(Min(len, Len(envelope)) - 1) |->
        LET left == IF n > 0 THEN envelope[n] ELSE 0
            right == IF n < Len(envelope) - 1 THEN envelope[n + 2] ELSE 0
        IN  CTurn(CAdd(CScale(amplitude, 2 * envelope[n + 1]),
                       CScale(drag_amp, right - left)),
                  phase0 + n * dphase)]

(* mix_add_plateau: what it adds to the n-th sample of the slice of length *)
(* len it is given.                                                        *)
mix_add_plateau(len, amplitude, phase, dphase) ==
    [n \in 0..(len - 1) |-> CTurn(CScale(amplitude, 4), phase + n * dphase)]

(* The body of the inner loop of sample_pulse_list for one pulse: whether  *)
(* one of its two slice expressions panics, and otherwise what the pulse   *)
(* adds to each sample of the waveform.                                    *)
sample_pulse(bin, item, length, sample_rate, delay, align_level) ==
    LET t_start == item[1] + delay
        i_frac_start == AlignedIndex_new(t_start, sample_rate, align_level)
        i_start == as_usize(AlignedIndex_ceil(i_frac_start))
        index_offset == AlignedIndex_index_offset(i_frac_start)
        phase0 == bin.global_freq * (i_start - delay) + bin.local_freq * index_offset
        dphase == bin.global_freq + bin.local_freq
        rest == length - i_start
        i_plateau == as_usize(bin.envelope.plateau * sample_rate)
        added ==
            IF bin.envelope.shape # {}
            THEN mix_add_envelope(rest,
                     get_envelope(CHOOSE x \in bin.envelope.shape : TRUE,
                                  bin.envelope.width, bin.envelope.plateau,
                                  index_offset, sample_rate),
                     item[2].amp, CScale(item[2].drag, sample_rate), phase0, dphase)
            ELSE mix_add_plateau(i_plateau, item[2].amp, phase0, dphase)
    IN  IF i_start > length THEN [panic |-> TRUE, i_start |-> i_start, added |-> <<>>]
        ELSE IF bin.envelope.shape = {} /\ i_plateau > rest
             THEN [panic |-> TRUE, i_start |-> i_start, added |-> <<>>]
        ELSE [panic |-> FALSE, i_start |-> i_start, added |-> added]

(* The pulses of a list: (bin, index in the bin).                          *)
PulsesOf(list) == UNION {{<<bin, k>> : k \in DOMAIN list[bin]} : bin \in DOMAIN list}

RECURSIVE CSum(_, _)
CSum(f, K) ==
    IF K = {} THEN <<0, 0>>
    ELSE LET k == CHOOSE x \in K : TRUE IN CAdd(f[k], CSum(f, K \ {k}))

(* sample_pulse_list: a panic, or the waveform of `length` samples.        *)
sample_pulse_list(list, length, sample_rate, delay, align_level) ==
    LET P == PulsesOf(list)
        r == [p \in P |-> sample_pulse(p[1], list[p[1]][p[2]], length, sample_rate,
                                        delay, align_level)]
    IN  IF \E p \in P : r[p].panic THEN [status |-> "panic", waveform |-> <<>>]
        ELSE [status |-> "ok",
              waveform |->
                  [n \in 1..length |->
                      CSum([p \in P |->
                               IF n - 1 - r[p].i_start \in DOMAIN r[p].added
                               THEN r[p].added[n - 1 - r[p].i_start] ELSE <<0, 0>>], P)]]

---------------------------------------------------------------------------
(* pulse.rs: Sampler.                                                      *)

MaxDim == 2

(* Sampler::new                                                            *)
Sampler_new == [channels |-> <<>>, crosstalk |-> {}]

(* Sampler::add_channel                                                    *)
add_channel(s, name, pulses, length, sample_rate, delay, align_level) ==
    [s EXCEPT !.channels =
        [n \in DOMAIN s.channels \cup {name} |->
            IF n = name
            THEN [pulses |-> pulses, length |-> length, sample_rate |-> sample_rate,
                  align_level |-> align_level, delay |-> delay]
            ELSE s.channels[n]]]

(* Sampler::set_crosstalk; the matrix is the sequence of its rows.         *)
set_crosstalk(s, crosstalk, names) ==
    [s EXCEPT !.crosstalk = {[matrix |-> crosstalk, names |-> names]}]

(* The items of bin in the lists from the j-th on, each scaled by its      *)
(* multiplier; a list of multiplier 0 is skipped.                          *)
RECURSIVE scaled_items(_, _, _)
scaled_items(lists, bin, j) ==
    IF j > Len(lists) THEN <<>>
    ELSE LET multiplier == lists[j][1]
             list == lists[j][2]
             own == IF multiplier = 0 \/ bin \notin DOMAIN list THEN <<>>
                    ELSE [k \in DOMAIN list[bin] |->
                             <<list[bin][k][1],
                               PulseAmplitude_mul(list[bin][k][2], multiplier)>>]
         IN  own \o scaled_items(lists, bin, j + 1)

(* The merged list of merge_and_sample: per bin the k-way merge by time of *)
(* the scaled lists, coalesced within time_tolerance.                      *)
merged_list(lists, time_tolerance) ==
    LET bins == UNION {DOMAIN lists[j][2] : j \in {i \in DOMAIN lists : lists[i][1] # 0}}
    IN  [bin \in bins |->
            coalesce(sort_by_time(scaled_items(lists, bin, 1)), time_tolerance)]

(* merge_and_sample; lists is a sequence of <<multiplier, PulseList>>.     *)
merge_and_sample(lists, length, sample_rate, delay, align_level, time_tolerance) ==
    sample_pulse_list(merged_list(lists, time_tolerance), length, sample_rate, delay,
                      align_level)

(* The rows of the matrix zipped with the names, and the entries of a row  *)
(* zipped with the names: zip stops at the shorter.                        *)
ZippedRows(ct) == 1..Min(Len(ct.matrix), Len(ct.names))

ZippedCols(ct, i) == 1..Min(Len(ct.matrix[i]), Len(ct.names))

(* The closure of the crosstalk branch of sample for row i: indexing       *)
(* self.channels by a name that was not added panics.                      *)
sample_row(s, ct, i, time_tolerance) ==
    IF \/ ct.names[i] \notin DOMAIN s.channels
       \/ \E j \in ZippedCols(ct, i) : ct.names[j] \notin DOMAIN s.channels
    THEN [status |-> "panic", waveform |-> <<>>]
    ELSE LET out_channel == s.channels[ct.names[i]]
             lists == [j \in ZippedCols(ct, i) |->
                          <<ct.matrix[i][j], s.channels[ct.names[j]].pulses>>]
         IN  merge_and_sample(lists, out_channel.length, out_channel.sample_rate,
                              out_channel.delay, out_channel.align_level,
                              time_tolerance)

(* Sampler::sample: a panic, or the map from channel name to waveform.     *)
(* Collecting into the HashMap keeps the last row of a repeated name.      *)
Sampler_sample(s, time_tolerance) ==
    IF s.crosstalk # {}
    THEN LET ct == CHOOSE x \in s.crosstalk : TRUE
             r == [i \in ZippedRows(ct) |-> sample_row(s, ct, i, time_tolerance)]
         IN  IF \E i \in ZippedRows(ct) : r[i].status = "panic"
             THEN [status |-> "panic", out |-> <<>>]
             ELSE [status |-> "ok",
                   out |-> [n \in {ct.names[i] : i \in ZippedRows(ct)} |->
                              r[CHOOSE i \in ZippedRows(ct) :
                                    /\ ct.names[i] = n
                                    /\ \A k \in ZippedRows(ct) :
                                           ct.names[k] = n => k <= i].waveform]]
    ELSE LET r == [n \in DOMAIN s.channels |->
                      sample_pulse_list(s.channels[n].pulses, s.channels[n].length,
                                        s.channels[n].sample_rate, s.channels[n].delay,
                                        s.channels[n].align_level)]
         IN  IF \E n \in DOMAIN s.channels : r[n].status = "panic"
             THEN [status |-> "panic", out |-> <<>>]
             ELSE [status |-> "ok", out |-> [n \in DOMAIN s.channels |-> r[n].waveform]]

MIdle ==
    /\ sampler = Sampler_new
    /\ sampled = {}

(* The PulseList built from the calls by a builder of zero tolerances.     *)
ListOf(calls) == build(push_all(PulseListBuilder_new(0, 0), calls))

(* A sampler of one channel without crosstalk.                             *)
MInit ==
    /\ \E calls \in SeqsUpTo(PushArgs(0..MaxTime, {1}), MaxHeld),
          length \in 0..MaxLen, delay \in 0..MaxDelay :
          sampler = add_channel(Sampler_new, "a", ListOf(calls), length, 1, delay, 0)
    /\ sampled = {}

(* Pushes of amplitude 0.5, phase 0, to one bin at the times of T, in      *)
(* ascending order.                                                        *)
RECURSIVE CallsAt(_, _)
CallsAt(bin, T) ==
    IF T = {} THEN <<>>
    ELSE LET t == CHOOSE x \in T : \A y \in T : x <= y
         IN  <<[bin |-> bin, time |-> t, amplitude |-> 1, drag_coef |-> 1, phase |-> 0]>>
                 \o CallsAt(bin, T \ {t})

(* The matrix of `rows` rows and `cols` columns with diag on the diagonal  *)
(* and off elsewhere.                                                      *)
Matrix(rows, cols, diag, off) ==
    [i \in 1..rows |-> [j \in 1..cols |-> IF i = j THEN diag ELSE off]]

(* The name lists handed to set_crosstalk; no channel "c" is ever added.   *)
NameLists ==
    {SubSeq(order, 1, n) : order \in {<<"a", "b", "c">>, <<"b", "a", "c">>},
                           n \in 0..Min(MaxDim, 3)}

(* A sampler of two channels, "a" with pulses of one bin at any times and  *)
(* "b" with at most one pulse.                                             *)
XInit ==
    /\ \E abin \in Bins, T \in SUBSET (0..MaxTime), bbin \in Bins, U \in {{}, {0}} :
          sampler = add_channel(
                        add_channel(Sampler_new, "a", ListOf(CallsAt(abin, T)),
                                    MaxTime + MaxLen, 1, 0, 0),
                        "b", ListOf(CallsAt(bbin, U)), MaxTime + MaxLen, 1, 0, 0)
    /\ sampled = {}

(* Sampler::set_crosstalk(matrix, names)                                   *)
MSetCrosstalk ==
    /\ sampler.crosstalk = {}
    /\ sampled = {}
    /\ \E rows \in 1..MaxDim, cols \in 1..MaxDim, diag \in {1, 2}, off \in {0, 1},
          names \in NameLists :
          sampler' = set_crosstalk(sampler, Matrix(rows, cols, diag, off), names)
    /\ UNCHANGED <<sampled, notM>>

(* Sampler::sample(time_tolerance)                                         *)
MSample ==
    /\ sampled = {}
    /\ \E time_tolerance \in 0..MaxTol :
          sampled' = {[time_tolerance |-> time_tolerance,
                       result |-> Sampler_sample(sampler, time_tolerance)]}
    /\ UNCHANGED <<sampler, notM>>

---------------------------------------------------------------------------
(* pulse.rs: the cache of get_envelope.                                    *)

(*                                                                         *)
(* #[cached(size = 1024)] keeps a SizedCache (LRU) behind a mutex.  The    *)
(* function it generates locks the mutex to look the key up and returns a  *)
(* clone of the Arc on a hit; on a miss it releases the mutex, runs the    *)
(* body, locks again and stores the result (the attribute does not ask for *)
(* sync_writes).  Sampler::sample renders the channels as rayon tasks,     *)
(* each calling get_envelope once per shaped pulse, in order.              *)

CacheSize == 1024

MaxShaped == 2

(* The keys of the model: (shape, width, plateau, index_offset, rate).     *)
Keys == {<<"hann", 2, 1, 0, 1>>, <<"hann", 2, 0, 0, 1>>}

TaskNames == {"a", "b"}

EmptyCache == [store |-> <<>>, order |-> <<>>]

(* The sequence s without the element x.                                   *)
Without(s, x) ==
    LET keep == {i \in DOMAIN s : s[i] # x}
        F[n \in 0..Len(s)] ==
            IF n = 0 THEN <<>>
            ELSE IF n \in keep THEN Append(F[n - 1], s[n]) ELSE F[n - 1]
    IN  F[Len(s)]

(* SizedCache::cache_get on a stored key: the key becomes the most recent. *)
cache_get(c, key) == [c EXCEPT !.order = <<key>> \o Without(c.order, key)]

(* SizedCache::cache_set: store, make most recent, evict the least recent  *)
(* key over the capacity.                                                  *)
cache_set(c, key, value) ==
    LET order == <<key>> \o Without(c.order, key)
        kept == IF Len(order) > CacheSize THEN SubSeq(order, 1, CacheSize) ELSE order
    IN  [store |-> [k \in {kept[i] : i \in DOMAIN kept} |->
                       IF k = key THEN value ELSE c.store[k]],
         order |-> kept]

IdleTask == [pc |-> "call", todo |-> <<>>, result |-> {}, got |-> <<>>]

KIdle ==
    /\ cache = EmptyCache
    /\ tasks = [t \in TaskNames |-> IdleTask]
    /\ shape_calls = [k \in Keys |-> 0]

(* One sample(): a cold cache and, per channel, the keys of its shaped     *)
(* pulses in rendering order.                                              *)
KInit ==
    /\ cache = EmptyCache
    /\ tasks \in [TaskNames -> {[IdleTask EXCEPT !.todo = keys] :
                                    keys \in SeqsUpTo(Keys, MaxShaped)}]
    /\ shape_calls = [k \in Keys |-> 0]

(* get_envelope, first critical section: the lookup.                       *)
KLookup(t) ==
    /\ tasks[t].pc = "call"
    /\ tasks[t].todo # <<>>
    /\ LET key == Head(tasks[t].todo)
       IN  IF key \in DOMAIN cache.store
           THEN /\ cache' = cache_get(cache, key)
                /\ tasks' = [tasks EXCEPT ![t].todo = Tail(@),
                                          ![t].got = Append(@, cache.store[key])]
           ELSE /\ tasks' = [tasks EXCEPT ![t].pc = "miss"]
                /\ UNCHANGED cache
    /\ UNCHANGED <<shape_calls, notK>>

(* get_envelope on a miss: the body runs outside the mutex and makes a new *)
(* Arc, named by the key and the number of the run.                        *)
KCompute(t) ==
    /\ tasks[t].pc = "miss"
    /\ LET key == Head(tasks[t].todo)
       IN  /\ shape_calls' = [shape_calls EXCEPT ![key] = @ + 1]
           /\ tasks' = [tasks EXCEPT ![t].pc = "computed",
                                     ![t].result = {<<key, shape_calls[key] + 1>>}]
    /\ UNCHANGED <<cache, notK>>

(* get_envelope on a miss, second critical section: store and return.      *)
KStore(t) ==
    /\ tasks[t].pc = "computed"
    /\ LET key == Head(tasks[t].todo)
           value == CHOOSE x \in tasks[t].result : TRUE
       IN  /\ cache' = cache_set(cache, key, value)
           /\ tasks' = [tasks EXCEPT ![t].pc = "call", ![t].todo = Tail(@),
                                     ![t].result = {}, ![t].got = Append(@, value)]
    /\ UNCHANGED <<shape_calls, notK>>

PulseIdle == EIdle /\ BIdle /\ MIdle /\ KIdle

ScheduleIdle == WIdle /\ SIdle /\ AIdle

---------------------------------------------------------------------------
(* Specifications: one per component, the other components idle.           *)

InitWrapper == WInit /\ SIdle /\ AIdle /\ PulseIdle

WNext == WMeasure \/ WArrange \/ WDrop

SpecWrapper == InitWrapper /\ [][WNext]_vars

InitStack == WIdle /\ SInit /\ AIdle /\ PulseIdle

SNext == StackMeasure \/ StackArrange \/ StackWithDirection

SpecStack == InitStack /\ [][SNext]_vars

InitAbsolute == WIdle /\ SIdle /\ AInit /\ PulseIdle

ANext == AbsNew \/ AbsWithChildren \/ AbsClone \/ AbsMeasure

SpecAbsolute == InitAbsolute /\ [][ANext]_vars

InitAbsArrange == WIdle /\ SIdle /\ PInit /\ PulseIdle

PNext == AbsArrange \/ AbsDrop

SpecAbsArrange == InitAbsArrange /\ [][PNext]_vars

InitEnvelope == ScheduleIdle /\ EInit /\ BIdle /\ MIdle /\ KIdle

ENext == EnvNew \/ EnvAgain

SpecEnvelope == InitEnvelope /\ [][ENext]_vars

InitBuild == ScheduleIdle /\ EIdle /\ BInit /\ MIdle /\ KIdle

BNext == BBuild

SpecBuild == InitBuild /\ [][BNext]_vars

InitPush == ScheduleIdle /\ EIdle /\ HInit /\ MIdle /\ KIdle

HNext == BPush \/ BBuild

SpecPush == InitPush /\ [][HNext]_vars

InitSample == ScheduleIdle /\ EIdle /\ BIdle /\ MInit /\ KIdle

MNext == MSample

SpecSample == InitSample /\ [][MNext]_vars

InitCrosstalk == ScheduleIdle /\ EIdle /\ BIdle /\ XInit /\ KIdle

XNext == MSetCrosstalk \/ MSample

SpecCrosstalk == InitCrosstalk /\ [][XNext]_vars

InitCache == ScheduleIdle /\ EIdle /\ BIdle /\ MIdle /\ KInit

KNext == \E t \in TaskNames : KLookup(t) \/ KCompute(t) \/ KStore(t)

SpecCache == InitCache /\ [][KNext]_vars

---------------------------------------------------------------------------
(* Properties of the measure / arrange wrappers (SpecWrapper).             *)

TheMeasured == unwrap_or(w_measured, [unclipped_duration |-> 0, duration |-> 0])

(* C1: measure(element) returns unclipped_duration = max(0, inner +        *)
(* total_margin) and duration = max(0, clamp(unclipped_duration -          *)
(* total_margin, min_d, max_d) + total_margin): the clamp is applied to    *)
(* the margin-free duration and the margin is added exactly once.          *)
C1_MeasureAddsMarginOnce ==
    w_measured # {} =>
        LET tm == total_margin(elem.common)
            mm == clamp_min_max_duration(elem.common)
            unclipped == TMax(elem.inner + tm, 0)
        IN  /\ TheMeasured.unclipped_duration = unclipped
            /\ TheMeasured.duration =
                   TMax(clamp_duration(unclipped - tm, mm[1], mm[2]) + tm, 0)

(* The two oversize conditions of the claim, for the recorded call.        *)
C2_Oversize ==
    LET tm == total_margin(elem.common)
        mm == clamp_min_max_duration(elem.common)
        inner_duration == clamp_duration(TMax(w_arranged.duration - tm, 0), mm[1], mm[2])
        limit == TheMeasured.unclipped_duration - w_arranged.tol
    IN  w_arranged.duration < limit \/ inner_duration + tm < limit

(* C2: with allow_oversize false, arrange fails with the oversize error,   *)
(* without arranging the variant, whenever duration < unclipped_duration - *)
(* time_tolerance or inner_duration + total_margin < unclipped_duration -  *)
(* time_tolerance; with allow_oversize true the wrapper never fails for    *)
(* oversize; a successful result has inner_time = time + margin.left.      *)
C2_ArrangeOversize ==
    w_arranged.status # "none" =>
        /\ (~w_arranged.allow /\ C2_Oversize) =>
               (w_arranged.status = "oversize" /\ ~w_arranged.variant_arranged)
        /\ w_arranged.allow => w_arranged.status # "oversize"
        /\ w_arranged.status = "ok" =>
               w_arranged.inner_time = w_arranged.time + elem.common.margin[1]

(* C2 witness: the first check passes and the second one rejects the call. *)
C2_Witness ==
    /\ w_arranged.status = "oversize"
    /\ w_arranged.duration >= TheMeasured.unclipped_duration - w_arranged.tol
    /\ elem.common.margin # <<0, 0>>

---------------------------------------------------------------------------
(* Properties of the Stack layout (SpecStack).                             *)

SetMax(S) == CHOOSE x \in S : \A y \in S : y <= x

TheStackMeasure == unwrap_or(s_measure_result, <<0, <<>>>>)

NumChildren == Len(stack.children)

(* The children in the order measure_stack visits them, and the listed     *)
(* index of the k-th visited child.                                        *)
VisitOrder ==
    IF stack.direction = "Forward" THEN stack.children ELSE Reverse(stack.children)

ListedIndex(k) == IF stack.direction = "Forward" THEN k ELSE NumChildren + 1 - k

(* The usage of the claim: one time per channel of the stack, a single     *)
(* scalar (the pseudo channel "*") when the stack has no channels.         *)
RefChannels == IF stack.channel_ids = {} THEN {"*"} ELSE stack.channel_ids

RefUses(child) ==
    IF child.channels = {} \/ stack.channel_ids = {} THEN RefChannels
    ELSE child.channels

RECURSIVE RefUsage(_)
RefUsage(k) ==
    IF k = 0 THEN [c \in RefChannels |-> 0]
    ELSE LET prev == RefUsage(k - 1)
             child == VisitOrder[k]
             offset == SetMax({prev[c] : c \in RefUses(child)})
         IN  [c \in RefChannels |->
                 IF c \in RefUses(child) THEN offset + child.duration ELSE prev[c]]

RefOffset(k) == SetMax({RefUsage(k - 1)[c] : c \in RefUses(VisitOrder[k])})

(* C4: measure_stack visits the children in the direction's order keeping  *)
(* a per-channel usage; each child's offset is the maximum usage over its  *)
(* channels (all channels when it declares none), after which those        *)
(* channels' usage becomes offset + duration; the total is the maximum     *)
(* final usage and the offsets are indexed in the listed order.            *)
C4_MeasureStackUsage ==
    s_measure_result # {} =>
        /\ Len(TheStackMeasure[2]) = NumChildren
        /\ TheStackMeasure[1] = SetMax({RefUsage(NumChildren)[c] : c \in RefChannels})
        /\ \A k \in 1..NumChildren :
               TheStackMeasure[2][ListedIndex(k)] = RefOffset(k)

(* C4 witness: a measured Backward stack of three children over two        *)
(* channels, one child declaring no channel, with three different offsets. *)
C4_Witness ==
    /\ s_measure_result # {}
    /\ stack.direction = "Backward"
    /\ NumChildren = 3
    /\ stack.channel_ids = Channels
    /\ \E i \in 1..3 : stack.children[i].channels = {}
    /\ Cardinality({TheStackMeasure[2][i] : i \in 1..3}) = 3

(* C5: arrange_stack gives every child its measured duration and the final *)
(* offset measured_offset (Forward) or final_duration - measured_offset -  *)
(* measured_duration (Backward), in the listed order.                      *)
C5_ArrangeStackOffsets ==
    s_arranged.done =>
        /\ Len(s_arranged.children) = NumChildren
        /\ \A i \in 1..NumChildren :
               LET d == stack.children[i].duration
                   off == TheStackMeasure[2][i]
               IN  /\ s_arranged.children[i].duration = d
                   /\ stack.direction = "Forward" =>
                          s_arranged.children[i].final_offset = off
                   /\ stack.direction = "Backward" =>
                          s_arranged.children[i].final_offset =
                              s_arranged.final_duration - off - d

(* C5 witness: a Backward stack arranged in more than its measured total,  *)
(* with a child whose final offset differs from its measured offset.       *)
C5_Witness ==
    /\ s_arranged.done
    /\ stack.direction = "Backward"
    /\ s_arranged.final_duration > TheStackMeasure[1]
    /\ \E i \in 1..NumChildren :
          /\ stack.children[i].duration > 0
          /\ s_arranged.children[i].final_offset # TheStackMeasure[2][i]

(* The arrangement of a list of children in a direction and a final        *)
(* duration: measure_stack, then arrange_stack.                            *)
Arrangement(children, direction, final_duration) ==
    arrange_stack(children,
                  measure_stack(children, merge_channel_ids(children), direction)[2],
                  final_duration, direction)

Opposite(direction) == IF direction = "Forward" THEN "Backward" ELSE "Forward"

ExampleS6 ==
    <<[duration |-> 1, channels |-> {"ch0"}], [duration |-> 2, channels |-> {"ch0"}]>>

(* C6 as stated: the Backward arrangement is the time mirror of the        *)
(* Forward arrangement of the same children, final offset =                *)
(* final_duration - forward final offset - duration; Stack(Backward,       *)
(* [A(d=1), B(d=2)]) with final_duration 3 places A at 2 and B at 0.       *)
C6_MirrorOfSameList ==
    (s_arranged.done /\ stack.direction = "Backward") =>
        LET fwd == Arrangement(stack.children, "Forward", s_arranged.final_duration)
        IN  /\ \A i \in 1..NumChildren :
                   s_arranged.children[i].final_offset =
                       s_arranged.final_duration - fwd[i].final_offset
                           - stack.children[i].duration
            /\ (stack.children = ExampleS6 /\ s_arranged.final_duration = 3) =>
                   /\ s_arranged.children[1].final_offset = 2
                   /\ s_arranged.children[2].final_offset = 0

(* C6 amended: the arrangement of a list in one direction is the time      *)
(* mirror of the arrangement of the reversed list in the opposite          *)
(* direction; Stack(Backward, [A(d=1), B(d=2)]) with final_duration 3 has  *)
(* measured offsets 2 and 0 and places A at 0 and B at 1.                  *)
C6_MirrorOfReversedList ==
    s_arranged.done =>
        LET other == Arrangement(Reverse(stack.children), Opposite(stack.direction),
                                 s_arranged.final_duration)
        IN  /\ \A i \in 1..NumChildren :
                   s_arranged.children[i].final_offset =
                       s_arranged.final_duration
                           - other[NumChildren + 1 - i].final_offset
                           - stack.children[i].duration
            /\ (stack.children = ExampleS6 /\ stack.direction = "Backward"
                    /\ s_arranged.final_duration = 3) =>
                   /\ TheStackMeasure[2] = <<2, 0>>
                   /\ s_arranged.children[1].final_offset = 0
                   /\ s_arranged.children[2].final_offset = 1

(* C6 witness: the example stack arranged Backward in 3.                   *)
C6_Witness ==
    /\ s_arranged.done
    /\ stack.direction = "Backward"
    /\ stack.children = ExampleS6
    /\ s_arranged.final_duration = 3

(* A child uses a channel of C when it declares one, or declares none.     *)
UsesAny(child, C) == child.channels = {} \/ child.channels \cap C # {}

(* The helper after the first k children in visiting order.                *)
HelperAfter(k) ==
    map_children(SubSeq(VisitOrder, 1, k), Helper_new(stack.channel_ids), <<>>).helper

ExampleBarrier ==
    <<[duration |-> 1, channels |-> {"ch0"}],
      [duration |-> 0, channels |-> {"ch0", "ch1"}],
      [duration |-> 1, channels |-> {"ch1"}]>>

(* C7: a zero-duration child declaring channels C raises the usage of      *)
(* every channel of C to the running maximum over C, so a child visited    *)
(* after it that uses a channel of C is measured no earlier than the end   *)
(* of every child visited before it that uses a channel of C; [Play(ch0,   *)
(* 1), Barrier(ch0, ch1), Play(ch1, 1)] measures 2 and, arranged in 2,     *)
(* places the second Play at 1 in either direction.                        *)
C7_BarrierSynchronises ==
    /\ s_measure_result # {} =>
           /\ \A b \in 1..NumChildren :
                  LET C == VisitOrder[b].channels
                  IN  (VisitOrder[b].duration = 0 /\ C # {}) =>
                          /\ \A c \in C :
                                 Helper_get_usage(HelperAfter(b), {c}) =
                                     Helper_get_usage(HelperAfter(b - 1), C)
                          /\ \A p \in 1..(b - 1), q \in (b + 1)..NumChildren :
                                 (UsesAny(VisitOrder[p], C) /\ UsesAny(VisitOrder[q], C)) =>
                                     TheStackMeasure[2][ListedIndex(q)] >=
                                         TheStackMeasure[2][ListedIndex(p)]
                                             + VisitOrder[p].duration
           /\ stack.children = ExampleBarrier => TheStackMeasure[1] = 2
    /\ (s_arranged.done /\ stack.children = ExampleBarrier
            /\ s_arranged.final_duration = 2) =>
           s_arranged.children[3].final_offset = 1

(* C7 witness: the barrier example arranged Backward in 2.                 *)
C7_Witness ==
    /\ s_arranged.done
    /\ stack.direction = "Backward"
    /\ stack.children = ExampleBarrier
    /\ s_arranged.final_duration = 2

(* Two children share a channel when their declared channels meet or one   *)
(* of them declares none (all channels).                                   *)
Shares(a, b) == a.channels = {} \/ b.channels = {} \/ a.channels \cap b.channels # {}

(* C8 as stated: a stack of two children measures at least the larger of   *)
(* the two durations, with equality iff the children share no channel.     *)
C8_EqualIffDisjoint ==
    (s_measure_result # {} /\ NumChildren = 2) =>
        LET a == stack.children[1]
            b == stack.children[2]
            larger == TMax(a.duration, b.duration)
        IN  /\ TheStackMeasure[1] >= larger
            /\ TheStackMeasure[1] = larger <=> ~Shares(a, b)

(* C8 amended: a stack of two children measures at least the larger of the *)
(* two durations, with equality iff the children share no channel or one   *)
(* of them has duration 0.                                                 *)
C8_EqualIffDisjointOrEmpty ==
    (s_measure_result # {} /\ NumChildren = 2) =>
        LET a == stack.children[1]
            b == stack.children[2]
            larger == TMax(a.duration, b.duration)
        IN  /\ TheStackMeasure[1] >= larger
            /\ TheStackMeasure[1] = larger <=>
                   (~Shares(a, b) \/ a.duration = 0 \/ b.duration = 0)

(* C8 witness: two children on the same channel, one of duration 0, whose  *)
(* stack measures exactly the other's duration.                            *)
C8_Witness ==
    /\ s_measure_result # {}
    /\ NumChildren = 2
    /\ Shares(stack.children[1], stack.children[2])
    /\ stack.children[1].duration = 0
    /\ stack.children[2].duration > 0
    /\ TheStackMeasure[1] = stack.children[2].duration

(* Two half-open intervals [a, a + da) and [b, b + db) do not overlap.     *)
Apart(a, da, b, db) == a + da <= b \/ b + db <= a

(* The usage the helper holds for channel c (the scalar of a stack without *)
(* channels).                                                              *)
UsageOf(h, c) == IF h.kind = "Single" THEN h.v ELSE Helper_get_usage(h, {c})

(* The helper before the first child of order and after each child of it.  *)
RECURSIVE HelperTrace(_, _)
HelperTrace(order, helper) ==
    IF order = <<>> THEN <<helper>>
    ELSE <<helper>> \o HelperTrace(Tail(order),
                                   map_children(<<Head(order)>>, helper, <<>>).helper)

(* C19: in either direction, two children that share a channel (or of      *)
(* which one declares none) are measured at intervals [offset, offset +    *)
(* duration) that do not overlap; no channel's usage decreases while       *)
(* measure_stack visits the children; the measured total is the maximum of *)
(* offset + duration over the children; and arranged in a final_duration   *)
(* not below the total, every child lies inside [0, final_duration] and    *)
(* the sharing children still do not overlap.                              *)
C19_ChannelExclusive ==
    /\ s_measure_result # {} =>
           LET offsets == TheStackMeasure[2]
               cs == stack.children
               trace == HelperTrace(VisitOrder, Helper_new(stack.channel_ids))
           IN  /\ \A i, j \in 1..NumChildren :
                      (i # j /\ Shares(cs[i], cs[j])) =>
                          Apart(offsets[i], cs[i].duration, offsets[j], cs[j].duration)
               /\ \A k \in 1..NumChildren :
                      /\ \A c \in RefChannels :
                             UsageOf(trace[k + 1], c) >= UsageOf(trace[k], c)
                      /\ Helper_into_max_usage(trace[k + 1]) >=
                             Helper_into_max_usage(trace[k])
               /\ TheStackMeasure[1] =
                      max_or_default({offsets[i] + cs[i].duration : i \in 1..NumChildren})
    /\ (s_arranged.done /\ s_arranged.final_duration >= TheStackMeasure[1]) =>
           LET a == s_arranged.children
           IN  /\ \A i \in 1..NumChildren :
                      /\ a[i].final_offset >= 0
                      /\ a[i].final_offset + a[i].duration <= s_arranged.final_duration
               /\ \A i, j \in 1..NumChildren :
                      (i # j /\ Shares(stack.children[i], stack.children[j])) =>
                          Apart(a[i].final_offset, a[i].duration,
                                a[j].final_offset, a[j].duration)

(* C19 witness: a Backward stack of three children of positive duration,   *)
(* two on one channel and one declaring none, arranged in more than its    *)
(* measured total.                                                         *)
C19_Witness ==
    /\ s_arranged.done
    /\ stack.direction = "Backward"
    /\ NumChildren = 3
    /\ \A i \in 1..3 : stack.children[i].duration > 0
    /\ stack.children[1].channels = {"ch0"}
    /\ stack.children[2].channels = {}
    /\ stack.children[3].channels = {"ch0"}
    /\ s_arranged.final_duration > TheStackMeasure[1]

---------------------------------------------------------------------------
(* Properties of the lazily measured Absolute (SpecAbsolute).              *)

(* C9: after any sequence of new, with_children, clone and measure calls,  *)
(* measure() returns max(offset + child.measure()) over the current        *)
(* children of the value it is called on, 0 when it has none: the cached   *)
(* result never differs from an eager recomputation.                       *)
C9_MeasureIsFresh ==
    a_ret.who # "none" =>
        a_ret.value = measure_absolute(abs[a_ret.who].children)

---------------------------------------------------------------------------
(* Properties of arranging an Absolute element (SpecAbsArrange).           *)

ArrangedOk == a_arranged.done /\ a_arranged.parent.status = "ok"

(* What C10 says of everything but the children's inner_time: the          *)
(* Absolute's inner_duration is the final duration it was given, every     *)
(* child keeps its measured duration and is placed at its entry offset     *)
(* from the time handed to Absolute::arrange, and an entry built without   *)
(* with_time has offset 0.                                                 *)
AbsolutePlacesAtOffsets ==
    /\ a_arranged.parent.inner_duration = a_arranged.final_duration
    /\ Len(a_arranged.children) = Len(a_elem.entries)
    /\ \A i \in DOMAIN a_elem.entries :
           LET entry == a_elem.entries[i]
               kid == a_arranged.children[i]
           IN  /\ kid.status = "ok"
               /\ kid.duration = child_measure(entry.element)
               /\ kid.time = a_arranged.base + entry.time
               /\ ~entry.with_time_called => kid.time = a_arranged.base

---------------------------------------------------------------------------
(* Properties of Envelope::new (SpecEnvelope).                             *)

(* C18: Envelope::new(None, w, p) stores no shape, width 0 and plateau     *)
(* w + p; Envelope::new(Some(s), 0, p) stores no shape, width 0 and        *)
(* plateau p; so for non-negative w and p the envelope has a shape iff its *)
(* width is > 0, and Envelope::new on the stored fields gives an equal     *)
(* envelope.                                                               *)
C18_EnvelopeCanonical ==
    \A e \in e_env :
        /\ e_args.shape = {} =>
               e = [shape |-> {}, width |-> 0, plateau |-> e_args.width + e_args.plateau]
        /\ (e_args.shape # {} /\ e_args.width = 0) =>
               e = [shape |-> {}, width |-> 0, plateau |-> e_args.plateau]
        /\ (e_args.width >= 0 /\ e_args.plateau >= 0) =>
               (e.shape # {} <=> e.width > 0)
        /\ Envelope_new(e.shape, e.width, e.plateau) = e

(* C18 witness: Envelope::new(Some(s), 0, p) with p > 0 has returned the   *)
(* shapeless envelope of plateau p.                                        *)
C18_Witness ==
    /\ e_args.shape # {}
    /\ e_args.width = 0
    /\ e_args.plateau > 0
    /\ e_env = {[shape |-> {}, width |-> 0, plateau |-> e_args.plateau]}

---------------------------------------------------------------------------
(* Properties of PulseListBuilder::build (SpecBuild).                      *)

(* The times of a sequence of (time, amplitude) entries.                   *)
TimesOf(pulses) == [k \in DOMAIN pulses |-> pulses[k][1]]

(* C11: after build(), every bin of the PulseList has its entries in       *)
(* strictly ascending time order, and no two entries of one bin, adjacent  *)
(* or not, have times within time_tolerance of each other.                 *)
C11_BinsAscendingAndApart ==
    \A list \in b_list : \A bin \in DOMAIN list :
        \A i, j \in DOMAIN list[bin] :
            /\ i < j => list[bin][i][1] < list[bin][j][1]
            /\ i # j => Abs(list[bin][i][1] - list[bin][j][1]) > builder.time_tolerance

(* C11 witness: a bin pushed at times 2, 0, 1 and built with tolerance 1   *)
(* holds the two entries at times 0 and 2.                                 *)
C11_Witness ==
    /\ builder.time_tolerance = 1
    /\ \E list \in b_list : \E bin \in DOMAIN list :
          /\ TimesOf(builder.items[bin]) = <<2, 0, 1>>
          /\ TimesOf(list[bin]) = <<0, 2>>

ZeroAmplitude == [amp |-> <<0, 0>>, drag |-> <<0, 0>>]

(* The sum of the amplitudes of the entries of pulses whose index is in K. *)
RECURSIVE SumOver(_, _)
SumOver(pulses, K) ==
    IF K = {} THEN ZeroAmplitude
    ELSE LET k == CHOOSE x \in K : TRUE
         IN  [amp |-> CAdd(pulses[k][2].amp, SumOver(pulses, K \ {k}).amp),
              drag |-> CAdd(pulses[k][2].drag, SumOver(pulses, K \ {k}).drag)]

(* The pushed entries the k-th entry of a built bin replaces: those from   *)
(* its time up to the time of the next entry.                              *)
Replaced(pushed, built, k) ==
    {n \in DOMAIN pushed :
        /\ built[k][1] <= pushed[n][1]
        /\ k < Len(built) => pushed[n][1] < built[k + 1][1]}

(* C12: build() merges by summation: in each bin every output entry's amp  *)
(* and drag are the sums of those of the pushed entries it replaces, the   *)
(* sum of amp and of drag over a bin is the same before and after, no bin  *)
(* is created or removed, and two pushes of amplitude 0.5, phase 0, to one *)
(* bin at one time give a single entry of amplitude 1.0.                   *)
C12_BuildSums ==
    \A list \in b_list :
        /\ DOMAIN list = DOMAIN builder.items
        /\ \A bin \in DOMAIN list :
               LET pushed == builder.items[bin]
                   built == list[bin]
               IN  /\ SumOver(built, DOMAIN built) = SumOver(pushed, DOMAIN pushed)
                   /\ \A k \in DOMAIN built :
                          /\ built[k][2] = SumOver(pushed, Replaced(pushed, built, k))
                          /\ \E n \in DOMAIN pushed : pushed[n][1] = built[k][1]
                   /\ \A k \in DOMAIN pushed :
                          \E n \in DOMAIN built : k \in Replaced(pushed, built, n)
                   /\ (/\ Len(pushed) = 2
                       /\ pushed[1][1] = pushed[2][1]
                       /\ pushed[1][2].amp = <<1, 0>>
                       /\ pushed[2][2].amp = <<1, 0>>) =>
                          (Len(built) = 1 /\ built[1][2].amp = <<2, 0>>)

(* C12 witness: two pushes of amplitude 0.5, phase 0, to one bin at one    *)
(* time, built into one entry, next to another bin.                        *)
C12_Witness ==
    \E list \in b_list : \E bin \in DOMAIN list :
        /\ DOMAIN list = Bins
        /\ Len(builder.items[bin]) = 2
        /\ builder.items[bin][1] = builder.items[bin][2]
        /\ builder.items[bin][1][2].amp = <<1, 0>>
        /\ Len(list[bin]) = 1

---------------------------------------------------------------------------
(* Properties of PulseListBuilder::push (SpecPush).                        *)

(* The entry the claim expects push to append for the arguments a.         *)
ExpectedEntry(a) ==
    LET amp == IF a.phase = 0 THEN <<a.amplitude, 0>> ELSE <<0, a.amplitude>>
        drag == IF a.phase = 0 THEN <<0, a.amplitude * a.drag_coef>>
                ELSE <<0 - a.amplitude * a.drag_coef, 0>>
    IN  <<a.time, [amp |-> amp, drag |-> drag]>>

(* One step of the builder that is the push recorded in b_call'.           *)
PushStepOk ==
    \A a \in b_call' :
        IF Abs(a.amplitude) <= builder.amp_tolerance
        THEN builder' = builder
        ELSE /\ builder'.amp_tolerance = builder.amp_tolerance
             /\ builder'.time_tolerance = builder.time_tolerance
             /\ DOMAIN builder'.items = DOMAIN builder.items \cup {a.bin}
             /\ \A bin \in DOMAIN builder.items \ {a.bin} :
                    builder'.items[bin] = builder.items[bin]
             /\ builder'.items[a.bin] =
                    Append(IF a.bin \in DOMAIN builder.items
                           THEN builder.items[a.bin] ELSE <<>>, ExpectedEntry(a))

(* C13: push with |amplitude| <= amp_tolerance leaves the builder          *)
(* unchanged, so a builder that only received such pushes builds an empty  *)
(* PulseList; push with |amplitude| > amp_tolerance appends exactly one    *)
(* entry (time, amp, drag) to the bin keyed by (envelope, global_freq,     *)
(* local_freq) and changes no other bin.                                   *)
C13_AmplitudeTolerance ==
    /\ [][PushStepOk]_vars
    /\ [](\A list \in b_list : builder.items = <<>> => list = <<>>)

(* C13 witness: a push of non-zero amplitude within the tolerance was      *)
(* dropped by a builder that holds an entry.                               *)
C13_Witness ==
    /\ builder.items # <<>>
    /\ \E a \in b_call :
          /\ a.amplitude # 0
          /\ Abs(a.amplitude) <= builder.amp_tolerance

---------------------------------------------------------------------------
(* Properties of sample_pulse_list (SpecSample).                           *)

(* What the claim expects one pulse to add to the sample of index m (from  *)
(* 0) of a waveform of `length` samples: its own sample m - i0 when m is   *)
(* in [i0, i0 + n) and below length, nothing otherwise.                    *)
ClippedPulse(bin, item, length, delay, m) ==
    LET i0 == item[1] + delay
        whole ==
            IF bin.envelope.shape # {}
            THEN LET env == get_envelope(CHOOSE x \in bin.envelope.shape : TRUE,
                                         bin.envelope.width, bin.envelope.plateau, 0, 1)
                 IN  mix_add_envelope(Len(env), env, item[2].amp, item[2].drag,
                                      bin.global_freq * (i0 - delay),
                                      bin.global_freq + bin.local_freq)
            ELSE mix_add_plateau(bin.envelope.plateau, item[2].amp,
                                 bin.global_freq * (i0 - delay),
                                 bin.global_freq + bin.local_freq)
    IN  IF m < length /\ m - i0 \in DOMAIN whole THEN whole[m - i0] ELSE <<0, 0>>

(* C14: for every pulse list sample_pulse_list completes, with no slice    *)
(* out of range, and returns exactly `length` samples; a pulse whose start *)
(* index i0 >= length adds nothing, and a pulse, shaped or pure plateau,   *)
(* whose span [i0, i0 + n) runs past the end of the buffer is clipped:     *)
(* only the samples of index in [i0, length) are modified.                 *)
C14_SamplerClips ==
    \A r \in sampled :
        LET ch == sampler.channels["a"]
            P == PulsesOf(ch.pulses)
        IN  /\ r.result.status = "ok"
            /\ Len(r.result.out["a"]) = ch.length
            /\ \A n \in 1..ch.length :
                   r.result.out["a"][n] =
                       CSum([p \in P |->
                                ClippedPulse(p[1], ch.pulses[p[1]][p[2]], ch.length,
                                             ch.delay, n - 1)], P)

---------------------------------------------------------------------------
(* Properties of Sampler::sample with crosstalk (SpecCrosstalk).           *)

(* The crosstalk is k times the identity over all the channels added: the  *)
(* names list every channel once and the matrix is square of that size.    *)
IsScaledIdentity(ct, k) ==
    /\ Len(ct.names) = Cardinality(DOMAIN sampler.channels)
    /\ {ct.names[i] : i \in DOMAIN ct.names} = DOMAIN sampler.channels
    /\ ct.matrix = Matrix(Len(ct.names), Len(ct.names), k, 0)

(* A result of sample with every sample multiplied by k.                   *)
ScaledResult(result, k) ==
    [status |-> result.status,
     out |-> [n \in DOMAIN result.out |->
                 [i \in DOMAIN result.out[n] |-> CScale(result.out[n][i], k)]]]

(* What the recorded sample() returns, what it returns without crosstalk,  *)
(* and the merged list it renders for each row, against the row's own.     *)
IdentityIsPlain(r, ct) ==
    LET plain == Sampler_sample([sampler EXCEPT !.crosstalk = {}], r.time_tolerance)
    IN  /\ IsScaledIdentity(ct, 1) =>
               /\ r.result = plain
               /\ \A i \in ZippedRows(ct) :
                      merged_list([j \in ZippedCols(ct, i) |->
                                      <<ct.matrix[i][j],
                                        sampler.channels[ct.names[j]].pulses>>],
                                  r.time_tolerance)
                          = sampler.channels[ct.names[i]].pulses
        /\ IsScaledIdentity(ct, 2) => r.result = ScaledResult(plain, 2)

(* C15 as stated: for any channels and any time_tolerance passed to        *)
(* sample, sampling with the identity crosstalk returns the same map as    *)
(* sampling without crosstalk and sampling with twice the identity returns *)
(* every sample doubled; the merged list rendered for output channel i     *)
(* under the identity is channel i's own pulse list.                       *)
C15_IdentityAnyTolerance ==
    \A r \in sampled : \A ct \in sampler.crosstalk : IdentityIsPlain(r, ct)

(* No two entries of one bin of one channel are within tol of each other.  *)
EntriesApart(tol) ==
    \A n \in DOMAIN sampler.channels :
        LET list == sampler.channels[n].pulses
        IN  \A bin \in DOMAIN list : \A i, j \in DOMAIN list[bin] :
                i # j => Abs(list[bin][i][1] - list[bin][j][1]) > tol

(* C15 amended: the same, for a time_tolerance below the distance between  *)
(* any two entries of one bin of one channel.                              *)
C15_IdentityWhenApart ==
    \A r \in sampled : \A ct \in sampler.crosstalk :
        EntriesApart(r.time_tolerance) => IdentityIsPlain(r, ct)

(* C15 witness: channel "a" holds two pulses of one bin 2 apart and the    *)
(* sampler was sampled with twice the identity over <<b, a>> and           *)
(* time_tolerance 1.                                                       *)
C15_Witness ==
    \E r \in sampled : \E ct \in sampler.crosstalk :
        /\ r.time_tolerance = 1
        /\ r.result.status = "ok"
        /\ ct.names = <<"b", "a">>
        /\ IsScaledIdentity(ct, 2)
        /\ \E bin \in DOMAIN sampler.channels["a"].pulses :
              TimesOf(sampler.channels["a"].pulses[bin]) = <<0, 2>>

(* C16: set_crosstalk(matrix, names) followed by sample reports a          *)
(* CrosstalkShape error, with no partial result, whenever the matrix is    *)
(* not square or names.len() differs from the number of rows; no row or    *)
(* column of the matrix is silently ignored.                               *)
C16_ShapeIsValidated ==
    \A r \in sampled : \A ct \in sampler.crosstalk :
        (\/ \E i \in DOMAIN ct.matrix : Len(ct.matrix[i]) # Len(ct.matrix)
         \/ Len(ct.names) # Len(ct.matrix)) =>
            (r.result.status = "CrosstalkShape" /\ r.result.out = <<>>)

---------------------------------------------------------------------------
(* Properties of the envelope cache (SpecCache).                           *)

(* The buffers the tasks have received for a key.                          *)
BuffersOf(key) ==
    {b \in UNION {{tasks[t].got[i] : i \in DOMAIN tasks[t].got} : t \in TaskNames} :
        b[1] = key}

(* C17: when two identical shaped pulses are sampled, in one channel or in *)
(* two channels rendered by parallel tasks, the envelope of their key is   *)
(* computed exactly once and both pulses use the same shared buffer.       *)
C17_ComputedOnce ==
    \A key \in Keys :
        /\ shape_calls[key] <= 1
        /\ Cardinality(BuffersOf(key)) <= 1
        /\ BuffersOf(key) # {} => shape_calls[key] = 1

=============================================================================
